---- MODULE Spec2Model ----
(***************************************************************************)
(* Model of SourceAssets/Models/Automation/blender_dependency_check.py:    *)
(* discover the .blend files under a directory, open each one in the host  *)
(* application, collect its linked libraries and its size warning, and     *)
(* print the report.                                                       *)
(*                                                                         *)
(* File names and paths are sequences of one-character strings, so that    *)
(* str.lower, str.endswith and os.path.join are computed, not assumed.     *)
(***************************************************************************)
EXTENDS Integers, Sequences, FiniteSets, TLC

VARIABLES
    listing,       \* the directory tree: directory path -> [dirs, files] in scandir order
    disk,          \* file path -> [size, libs]: what is stored in each file
    active,        \* the host's loaded document (a file path, or NoDoc at start-up)
    pc,            \* position of the script
    blend_files,   \* list returned by find_blend_files
    idx,           \* position of the for loop in blend_files
    results_libs,  \* dict, as a sequence of <<key, value>> in insertion order
    results_size,  \* dict, as a sequence of <<key, value>> in insertion order
    output,        \* lines printed by the script so far
    fault,         \* the exception that ended the run, or NoFault
    log,           \* history: the calls made on the files during this run
    rerun,         \* TRUE in a second run over the same tree
    report1        \* history: what the first run printed

vars == <<listing, disk, active, pc, blend_files, idx, results_libs,
          results_size, output, fault, log, rerun, report1>>

\* ------------------------------------------------------------------ bounds
\* Largest number of files in the directory tree.
MaxEntries == 2

\* ------------------------------------------------------------- strings
Chars(s) ==
    CASE s = "a.blend"  -> <<"a", ".", "b", "l", "e", "n", "d">>
      [] s = "B.BLEND"  -> <<"B", ".", "B", "L", "E", "N", "D">>
      [] s = "a.blend1" -> <<"a", ".", "b", "l", "e", "n", "d", "1">>
      [] s = "blend"    -> <<"b", "l", "e", "n", "d">>
      [] s = "s"        -> <<"s">>
      [] s = "d.blend"  -> <<"d", ".", "b", "l", "e", "n", "d">>
      [] s = ".blend"   -> <<".", "b", "l", "e", "n", "d">>
      [] s = "./../"    -> <<".", "/", ".", ".", "/">>

\* str.lower, one character at a time
lowerChar(c) ==
    CASE c = "A" -> "a"
      [] c = "B" -> "b"
      [] c = "D" -> "d"
      [] c = "E" -> "e"
      [] c = "L" -> "l"
      [] c = "N" -> "n"
      [] OTHER -> c

lower(s) == [k \in 1..Len(s) |-> lowerChar(s[k])]

endswith(s, suffix) ==
    /\ Len(s) >= Len(suffix)
    /\ SubSeq(s, Len(s) - Len(suffix) + 1, Len(s)) = suffix

sep == "/"

\* os.path.join(root, f) for a relative f
join(root, f) ==
    IF root = <<>> \/ root[Len(root)] = sep
    THEN root \o f
    ELSE root \o <<sep>> \o f

\* ------------------------------------------------------- the directory tree
directory == Chars("./../")

SubDir == join(directory, Chars("s"))
DeepDir == join(SubDir, Chars("d.blend"))

\* The directories of the tree; DeepDir is a directory whose name ends in .blend.
AllDirs == {directory, SubDir, DeepDir}

SubDirsOf(d) ==
    CASE d = directory -> <<Chars("s")>>
      [] d = SubDir    -> <<Chars("d.blend")>>
      [] OTHER         -> <<>>

SceneNames == {Chars("a.blend"), Chars("B.BLEND")}
OtherNames == {Chars("a.blend1"), Chars("blend")}

\* The files a directory of the tree may hold
NamesIn(d) ==
    CASE d = directory -> {Chars("a.blend"), Chars("B.BLEND"), Chars("a.blend1")}
      [] d = SubDir    -> {Chars("a.blend"), Chars("blend")}
      [] d = DeepDir   -> {Chars("B.BLEND"), Chars("a.blend1")}

Range(s) == {s[k] : k \in 1..Len(s)}

\* Sequences over S without repetition, of length at most n
RECURSIVE Arrangements(_, _)
Arrangements(S, n) ==
    IF n = 0 THEN {<<>>}
    ELSE {<<>>} \cup UNION {{<<x>> \o t : t \in Arrangements(S \ {x}, n - 1)} : x \in S}

\* The directory listings: which files each directory holds, in the order
\* the file system lists them.
Listings ==
    {[d \in AllDirs |-> [dirs |-> SubDirsOf(d), files |-> fs[d]]] :
        fs \in {g \in [AllDirs -> Arrangements(SceneNames \cup OtherNames, MaxEntries)] :
                  /\ \A d \in AllDirs : Range(g[d]) \subseteq NamesIn(d)
                  /\ Len(g[directory]) + Len(g[SubDir]) + Len(g[DeepDir]) <= MaxEntries}}

FilesOf(ls) == UNION {{join(d, f) : f \in Range(ls[d].files)} : d \in AllDirs}

\* ---------------------------------------------------------- file contents
Threshold == 50 * 1024 * 1024

Sizes == {Threshold, Threshold + 1}
\* A library datablock of a scene: its name and the path it links to
Rock == [name |-> "rock.blend", filepath |-> "//lib/rock.blend"]
Kelp == [name |-> "kelp.blend", filepath |-> "//lib/kelp.blend"]
LibLists == {<<>>, <<Rock>>, <<Rock, Kelp>>, <<Kelp, Rock>>}

SceneContents == [size : Sizes, libs : LibLists]
OtherContent == [size |-> Threshold + 1, libs |-> <<Kelp>>]

IsSceneName(ls, p) ==
    \E d \in AllDirs : \E f \in Range(ls[d].files) \cap SceneNames : p = join(d, f)

Disks(ls) ==
    {dk \in [FilesOf(ls) -> SceneContents \cup {OtherContent}] :
        \A p \in FilesOf(ls) :
            IF IsSceneName(ls, p) THEN dk[p] \in SceneContents
                                  ELSE dk[p] = OtherContent}

NoDoc == <<>>
NoFault == [op |-> "none", file |-> <<>>]

\* ------------------------------------------------------- find_blend_files
\* Variant: the name is not lowered before the comparison.
isBlendCaseSensitive(f) == endswith(f, Chars(".blend"))

\* f.lower().endswith(".blend")
isBlend(f) == endswith(lower(f), Chars(".blend"))

\* for f in files, from the k-th on: the paths appended to blend_files
RECURSIVE scanFiles(_, _, _)
scanFiles(root, files, k) ==
    IF k > Len(files) THEN <<>>
    ELSE (IF isBlend(files[k]) THEN <<join(root, files[k])>> ELSE <<>>)
            \o scanFiles(root, files, k + 1)

\* for root, dirs, files in os.walk(top): os.walk yields top with its listing,
\* the loop body scans its files, and the walk goes on, top-down, into each
\* subdirectory of top in listing order (walkDirs: from the k-th on).
RECURSIVE walk(_, _), walkDirs(_, _, _)
walk(ls, top) ==
    scanFiles(top, ls[top].files, 1) \o walkDirs(ls, top, 1)
walkDirs(ls, top, k) ==
    IF k > Len(ls[top].dirs) THEN <<>>
    ELSE walk(ls, join(top, ls[top].dirs[k])) \o walkDirs(ls, top, k + 1)

find_blend_files(ls, dir) == walk(ls, dir)

\* ------------------------------------------------------------------ dicts
\* A dict is the sequence of its <<key, value>> items in insertion order.
Keys(d) == [k \in 1..Len(d) |-> d[k][1]]

\* Variant: a new key goes first.
DictSetFront(d, key, value) ==
    IF \E k \in 1..Len(d) : d[k][1] = key
    THEN [k \in 1..Len(d) |-> IF d[k][1] = key THEN <<key, value>> ELSE d[k]]
    ELSE <<<<key, value>>>> \o d

\* Variant: the assignment starts the dict afresh.
DictSetOnly(d, key, value) == <<<<key, value>>>>

\* d[key] = value: an existing key keeps its place, a new key goes last
DictSet(d, key, value) ==
    IF \E k \in 1..Len(d) : d[k][1] = key
    THEN [k \in 1..Len(d) |-> IF d[k][1] = key THEN <<key, value>> ELSE d[k]]
    ELSE Append(d, <<key, value>>)

\* ------------------------------------------------------- the host application
\* Variant: a document that is loaded stays loaded.
open_mainfile_keeps(doc, f) == IF doc = NoDoc THEN f ELSE doc

\* bpy.ops.wm.open_mainfile(filepath=f): f replaces the loaded document
open_mainfile(doc, f) == f

\* bpy.data.libraries of the loaded document
bpy_data_libraries(dk, doc) == IF doc = NoDoc THEN <<>> ELSE dk[doc].libs

\* Variant: the resave is live, and compression brings the file to the threshold.
save_as_mainfile_compressed(dk, f) == [dk EXCEPT ![f].size = 50 * 1024 * 1024]

\* The resave of the loaded file is a comment: the file stays as it is.
save_as_mainfile(dk, f) == dk

\* ------------------------------------------------------------ the script
\* Variant: the threshold itself warns.
sizeWarnInclusive(file_size) == file_size >= 50 * 1024 * 1024

\* file_size > 50 * 1024 * 1024
sizeWarn(file_size) == file_size > 50 * 1024 * 1024

\* [lib.filepath for lib in libraries], or [] when there are none
libPaths(libraries) ==
    IF Len(libraries) = 0 THEN <<>>
    ELSE [k \in 1..Len(libraries) |-> libraries[k].filepath]

\* Variant: the loop stops one item early.
LoopHeadStrict(i, n) == IF i < n THEN "getsize" ELSE "print"

\* the for statement: the body runs for the next item, or the loop is over
LoopHead(i, n) == IF i <= n THEN "getsize" ELSE "print"

\* Variant: the exception is caught and the loop goes on with the next file.
RaiseSkip(i) ==
    [pc |-> IF i + 1 <= Len(blend_files) THEN "getsize" ELSE "print", idx |-> i + 1]

\* No try statement: an exception ends the script where it is raised.
Raise(i) == [pc |-> "aborted", idx |-> i]

Init ==
    /\ listing \in Listings
    /\ disk \in Disks(listing)
    /\ active = NoDoc
    /\ pc = "start"
    /\ blend_files = <<>>
    /\ idx = 0
    /\ results_libs = <<>>
    /\ results_size = <<>>
    /\ output = <<>>
    /\ fault = NoFault
    /\ log = <<>>
    /\ rerun = FALSE
    /\ report1 = <<>>

\* blend_files = find_blend_files(directory); results_libs = {}; results_size = {}
Discover ==
    /\ pc = "start"
    /\ blend_files' = find_blend_files(listing, directory)
    /\ results_libs' = <<>>
    /\ results_size' = <<>>
    /\ idx' = 1
    /\ pc' = LoopHead(1, Len(blend_files'))
    /\ UNCHANGED <<listing, disk, active, output, fault, log, rerun, report1>>

\* file_size = os.path.getsize(blend_file), and the size check
GetSize ==
    /\ pc = "getsize"
    /\ LET blend_file == blend_files[idx] IN
       \/ LET file_size == disk[blend_file].size IN
            /\ results_size' = IF sizeWarn(file_size)
                                THEN DictSet(results_size, blend_file, file_size)
                                ELSE results_size
            /\ log' = Append(log, <<"getsize", blend_file>>)
            /\ pc' = "open"
            /\ UNCHANGED <<idx, fault>>
       \/ \* OSError
          /\ fault' = [op |-> "getsize", file |-> blend_file]
          /\ pc' = Raise(idx).pc
          /\ idx' = Raise(idx).idx
          /\ UNCHANGED <<results_size, log>>
    /\ UNCHANGED <<listing, disk, active, blend_files, results_libs, output,
                   rerun, report1>>

\* bpy.ops.wm.open_mainfile(filepath=blend_file)
OpenMainfile ==
    /\ pc = "open"
    /\ LET blend_file == blend_files[idx] IN
       \/ /\ active' = open_mainfile(active, blend_file)
          /\ log' = Append(log, <<"open", blend_file>>)
          /\ pc' = "libs"
          /\ UNCHANGED <<idx, fault>>
       \/ \* RuntimeError: the host could not read the file
          /\ fault' = [op |-> "open", file |-> blend_file]
          /\ pc' = Raise(idx).pc
          /\ idx' = Raise(idx).idx
          /\ UNCHANGED <<active, log>>
    /\ UNCHANGED <<listing, disk, blend_files, results_libs, results_size,
                   output, rerun, report1>>

\* libraries = bpy.data.libraries, and the entry of results_libs
RecordLibs ==
    /\ pc = "libs"
    /\ LET blend_file == blend_files[idx]
           libraries == bpy_data_libraries(disk, active) IN
        /\ disk' = save_as_mainfile(disk, blend_file)
        /\ results_libs' = DictSet(results_libs, blend_file, libPaths(libraries))
        /\ log' = Append(log, <<"libs", blend_file>>)
        /\ idx' = idx + 1
        /\ pc' = LoopHead(idx + 1, Len(blend_files))
    /\ UNCHANGED <<listing, active, blend_files, results_size, output, fault,
                   rerun, report1>>

\* ------------------------------------------------------------- reporting
\* f"{size / (1024 * 1024):.2f}": the quotient by a power of two is exact, and the
\* format rounds it to hundredths, a tie going to the even hundredth.
fmt2f(size) ==
    LET whole == size \div (1024 * 1024)
        scaled == (size % (1024 * 1024)) * 100
        h == scaled \div (1024 * 1024)
        r == scaled % (1024 * 1024)
        up == 2 * r > 1024 * 1024 \/ (2 * r = 1024 * 1024 /\ h % 2 = 1)
        hundredths == whole * 100 + h + (IF up THEN 1 ELSE 0)
    IN  <<hundredths \div 100, ".", (hundredths % 100) \div 10, hundredths % 10>>

\* A printed line is the tuple of the pieces its f-string puts together.
fileLine(blend_file) == <<"Blend File: ", blend_file>>
libLine(lib) == <<"    - ", lib>>
warnLine(blend_file, size) ==
    <<"Warning: File ", blend_file, " is ", fmt2f(size), "MB">>

\* Variant: the test "if libs" is missing.
RECURSIVE printLibsUnfiltered(_)
printLibsUnfiltered(items) ==
    IF items = <<>> THEN <<>>
    ELSE <<fileLine(Head(items)[1])>>
            \o [k \in 1..Len(Head(items)[2]) |-> libLine(Head(items)[2][k])]
            \o printLibsUnfiltered(Tail(items))

\* for blend_file, libs in results_libs.items(): ...
RECURSIVE printLibs(_)
printLibs(items) ==
    IF items = <<>> THEN <<>>
    ELSE LET blend_file == Head(items)[1]
             libs == Head(items)[2]
         IN (IF libs # <<>>
             THEN <<fileLine(blend_file)>> \o [k \in 1..Len(libs) |-> libLine(libs[k])]
             ELSE <<>>)
            \o printLibs(Tail(items))

\* for blend_file, size in results_size.items(): ...
printSizes(items) ==
    [k \in 1..Len(items) |-> warnLine(items[k][1], items[k][2])]

\* print("Final Results:") and the loop over results_libs
PrintLibs ==
    /\ pc = "print"
    /\ output' = output \o <<<<"Final Results:">>>> \o printLibs(results_libs)
    /\ pc' = "warn"
    /\ UNCHANGED <<listing, disk, active, blend_files, idx, results_libs,
                   results_size, fault, log, rerun, report1>>

\* the loop over results_size; the script ends after it
PrintSizes ==
    /\ pc = "warn"
    /\ output' = output \o printSizes(results_size)
    /\ pc' = "done"
    /\ UNCHANGED <<listing, disk, active, blend_files, idx, results_libs,
                   results_size, fault, log, rerun, report1>>

\* The script is run a second time in the same host session, over the tree as
\* the first run left it.
Rerun ==
    /\ pc = "done"
    /\ ~rerun
    /\ rerun' = TRUE
    /\ report1' = output
    /\ pc' = "start"
    /\ blend_files' = <<>>
    /\ idx' = 0
    /\ results_libs' = <<>>
    /\ results_size' = <<>>
    /\ output' = <<>>
    /\ log' = <<>>
    /\ UNCHANGED <<listing, disk, active, fault>>

Run == Discover \/ GetSize \/ OpenMainfile \/ RecordLibs \/ PrintLibs \/ PrintSizes

Next == Run \/ Rerun

Spec == Init /\ [][Next]_vars

\* The interpreter runs the script to its end once it is started.
FairSpec == Spec /\ WF_vars(Run)

\* ------------------------------------------------------------ properties
IsPrefix(s, t) == Len(s) <= Len(t) /\ SubSeq(t, 1, Len(s)) = s
KeySet(d) == {d[k][1] : k \in 1..Len(d)}
PosIn(seq, x) == CHOOSE j \in 1..Len(seq) : seq[j] = x
Reporting == pc \in {"print", "warn", "done"}
LoopBody == pc \in {"getsize", "open", "libs"}

\* The two spellings of each character of ".blend"
Spellings ==
    <<{"."}, {"b", "B"}, {"l", "L"}, {"e", "E"}, {"n", "N"}, {"d", "D"}>>

\* name ends with ".blend", whatever the case of its letters
EndsWithBlendAnyCase(name) ==
    /\ Len(name) >= Len(Spellings)
    /\ \A k \in 1..Len(Spellings) :
          name[Len(name) - Len(Spellings) + k] \in Spellings[k]

\* The files of the tree with such a name, each as <<directory, place in the listing>>
MatchingEntries ==
    {e \in UNION {{<<d, k>> : k \in 1..Len(listing[d].files)} : d \in AllDirs} :
        EndsWithBlendAnyCase(listing[e[1]].files[e[2]])}

EntryPath(e) == join(e[1], listing[e[1]].files[e[2]])

\* C1: once find_blend_files has returned, blend_files holds exactly the files of
\* the tree, at any depth, whose name ends case-insensitively with ".blend": as
\* many paths as there are such files, each such file once, and no other file
\* and no directory.
C1_DiscoveryExact ==
    pc # "start" =>
        /\ Len(blend_files) = Cardinality(MatchingEntries)
        /\ \A e \in MatchingEntries :
              Cardinality({j \in 1..Len(blend_files) : blend_files[j] = EntryPath(e)}) = 1
        /\ \A j \in 1..Len(blend_files) :
              /\ \E e \in MatchingEntries : blend_files[j] = EntryPath(e)
              /\ blend_files[j] \notin AllDirs

C1_Witness ==
    /\ pc # "start"
    /\ Len(blend_files) = 1
    /\ blend_files[1] = join(DeepDir, Chars("B.BLEND"))
    /\ listing[directory].files = <<Chars("a.blend1")>>

\* C2: after the inspection loop a discovered file is a key of results_size
\* exactly when its size is above 50 MiB, and the value is that size: 52428800
\* bytes give no entry, 52428801 bytes give the entry 52428801.
C2_SizeWarningStrict ==
    Reporting =>
        /\ KeySet(results_size) \subseteq Range(blend_files)
        /\ \A j \in 1..Len(blend_files) :
              LET f == blend_files[j]
                  size == disk[f].size
              IN  /\ (f \in KeySet(results_size)) <=> (size > 52428800)
                  /\ \A k \in 1..Len(results_size) :
                        results_size[k][1] = f => results_size[k][2] = size
                  /\ size = 52428800 => f \notin KeySet(results_size)
                  /\ size = 52428801 => <<f, 52428801>> \in Range(results_size)

C2_Witness ==
    /\ pc = "done"
    /\ Len(blend_files) = 2
    /\ disk[blend_files[1]].size = 52428800
    /\ disk[blend_files[2]].size = 52428801
    /\ results_size = <<<<blend_files[2], 52428801>>>>

\* C3: when the inspection loop has completed, results_libs has one key per
\* discovered file and no other, and the value of each file is the list of the
\* library paths of that very file, in the host's order, empty when it has none.
C3_LibsOfEachFile ==
    Reporting =>
        /\ Keys(results_libs) = blend_files
        /\ \A j \in 1..Len(results_libs) :
              LET own == disk[results_libs[j][1]].libs
              IN  /\ Len(results_libs[j][2]) = Len(own)
                  /\ \A k \in 1..Len(own) : results_libs[j][2][k] = own[k].filepath

C3_Witness ==
    /\ pc = "done"
    /\ Len(blend_files) = 2
    /\ disk[blend_files[1]].libs = <<Kelp, Rock>>
    /\ disk[blend_files[2]].libs = <<>>
    /\ results_libs[1][2] = <<"//lib/kelp.blend", "//lib/rock.blend">>
    /\ results_libs[2][2] = <<>>

RECURSIVE BlockLines(_)
BlockLines(items) ==
    IF items = <<>> THEN 0
    ELSE (IF Len(Head(items)[2]) >= 1 THEN 1 + Len(Head(items)[2]) ELSE 0)
            + BlockLines(Tail(items))

IsFileLine(line, f) == Len(line) = 2 /\ line[1] = "Blend File: " /\ line[2] = f
IsLibLine(line) == Len(line) = 2 /\ line[1] = "    - "
IsWarnLine(line) == Len(line) = 5 /\ line[1] = "Warning: File "

\* C4: in the finished report a file with K >= 1 references has its path line
\* once, followed by exactly its K references as indented lines in mapping order;
\* a file without references has no path line; every key of results_size has
\* exactly one warning line; and the report holds no other line but its heading.
C4_ReportBlocks ==
    pc = "done" =>
        /\ \A j \in 1..Len(results_libs) :
              LET f == results_libs[j][1]
                  libs == results_libs[j][2]
                  at == {p \in 1..Len(output) : IsFileLine(output[p], f)}
              IN  IF Len(libs) >= 1
                  THEN /\ Cardinality(at) = 1
                       /\ \A p \in at :
                             /\ p + Len(libs) <= Len(output)
                             /\ \A m \in 1..Len(libs) :
                                   /\ IsLibLine(output[p + m])
                                   /\ output[p + m][2] = libs[m]
                             /\ p + Len(libs) < Len(output) =>
                                   ~IsLibLine(output[p + Len(libs) + 1])
                  ELSE at = {}
        /\ \A k \in 1..Len(results_size) :
              Cardinality({p \in 1..Len(output) :
                  IsWarnLine(output[p]) /\ output[p][2] = results_size[k][1]}) = 1
        /\ Len(output) = 1 + BlockLines(results_libs) + Len(results_size)

C4_Witness ==
    /\ pc = "done"
    /\ Len(blend_files) = 2
    /\ disk[blend_files[1]] = [size |-> 52428800, libs |-> <<Kelp, Rock>>]
    /\ disk[blend_files[2]] = [size |-> 52428801, libs |-> <<>>]
    /\ output = << <<"Final Results:">>,
                   <<"Blend File: ", blend_files[1]>>,
                   <<"    - ", "//lib/kelp.blend">>,
                   <<"    - ", "//lib/rock.blend">>,
                   <<"Warning: File ", blend_files[2], " is ", <<50, ".", 0, 0>>, "MB">> >>

\* C5: nothing is printed before every discovered file has been inspected; in
\* the report no library-section line follows a warning line, and the path
\* lines, and the warning lines, come in the order find_blend_files returned
\* their files.
C5_OutputOrder ==
    /\ output # <<>> =>
          /\ pc \in {"warn", "done"}
          /\ Keys(results_libs) = blend_files
    /\ \A p, q \in 1..Len(output) :
          p < q =>
            /\ IsWarnLine(output[p]) => IsWarnLine(output[q])
            /\ (IsWarnLine(output[p]) /\ IsWarnLine(output[q])) \/
               (output[p][1] = "Blend File: " /\ output[q][1] = "Blend File: ") =>
                  /\ output[p][2] \in Range(blend_files)
                  /\ output[q][2] \in Range(blend_files)
                  /\ PosIn(blend_files, output[p][2]) < PosIn(blend_files, output[q][2])

C5_Witness ==
    /\ pc = "done"
    /\ Len(blend_files) = 2
    /\ Len(output) = 7
    /\ output[2] = <<"Blend File: ", blend_files[1]>>
    /\ output[4] = <<"Blend File: ", blend_files[2]>>
    /\ IsWarnLine(output[6]) /\ output[6][2] = blend_files[1]
    /\ IsWarnLine(output[7]) /\ output[7][2] = blend_files[2]

\* C6: no step of a run changes a file or the tree, and a second run over the
\* unchanged tree, answered by the host as the first was, ends with the report
\* the first run printed.
C6_RerunSameReport ==
    [][/\ disk' = disk
       /\ listing' = listing
       /\ (rerun' /\ pc' = "done") => output' = report1']_vars

C6_Witness ==
    /\ rerun
    /\ pc = "done"
    /\ Len(blend_files) = 2
    /\ Len(output) = 5
    /\ IsWarnLine(output[5])
    /\ output = report1

\* C7: when reading the size of a file, or loading it, fails, the run ends at
\* that file: the script takes no further step, the failing file gets no entry
\* in results_libs, no later file is touched, and nothing at all is printed.
C7_FailWholeRun ==
    /\ pc = "aborted" <=> fault # NoFault
    /\ fault # NoFault =>
          /\ ~ENABLED Run
          /\ output = <<>>
          /\ idx \in 1..Len(blend_files)
          /\ blend_files[idx] = fault.file
          /\ Keys(results_libs) = SubSeq(blend_files, 1, idx - 1)
          /\ KeySet(results_size) \subseteq Range(SubSeq(blend_files, 1, idx))
          /\ \A k \in 1..Len(log) : PosIn(blend_files, log[k][2]) <= idx

C7_Witness ==
    /\ pc = "aborted"
    /\ fault.op = "open"
    /\ idx = 2
    /\ Len(results_libs) = 1
    /\ results_libs[1][2] # <<>>
    /\ Len(results_size) = 2
    /\ output = <<>>

\* The calls an undisturbed run makes on the files, in order
RECURSIVE Inspections(_)
Inspections(files) ==
    IF files = <<>> THEN <<>>
    ELSE <<<<"getsize", Head(files)>>, <<"open", Head(files)>>, <<"libs", Head(files)>>>>
            \o Inspections(Tail(files))

\* C8: a run always comes to its end, and it ends aborted only when an operation
\* failed; the calls made so far are always the beginning of: size, load and
\* library query of the first file, then of the second, and so on in discovery
\* order; at the reporting stage they are all of these, each once; the loop body
\* runs only for a file of the list, so with no file it never runs.
C8_TerminatesInOrder ==
    /\ [](/\ IsPrefix(log, Inspections(blend_files))
          /\ Reporting => log = Inspections(blend_files)
          /\ LoopBody => idx \in 1..Len(blend_files)
          /\ pc = "aborted" => fault # NoFault)
    /\ []<>(pc = "done" \/ fault # NoFault)

C8_Witness ==
    /\ pc = "done"
    /\ rerun
    /\ fault = NoFault
    /\ Len(blend_files) = 2
    /\ Len(log) = 6

\* C9: while a run lasts, a step only adds entries for the file being inspected:
\* the entries already in results_libs and results_size stay as they are, in
\* place; the library step adds the file's own key, the size step adds it only
\* for an oversized file; reporting and loading change neither mapping.
C9_OnlyOwnEntries ==
    [][pc # "done" =>
        /\ IsPrefix(results_libs, results_libs')
        /\ IsPrefix(results_size, results_size')
        /\ results_libs' # results_libs =>
              /\ pc = "libs"
              /\ Keys(results_libs') = Append(Keys(results_libs), blend_files[idx])
        /\ results_size' # results_size =>
              /\ pc = "getsize"
              /\ Keys(results_size') = Append(Keys(results_size), blend_files[idx])
              /\ disk[blend_files[idx]].size > 52428800
        /\ pc = "libs" => results_libs' # results_libs]_vars

C9_Witness ==
    /\ pc = "libs"
    /\ idx = 2
    /\ active = blend_files[2]
    /\ Keys(results_libs) = <<blend_files[1]>>
    /\ results_libs[1][2] = <<"//lib/rock.blend">>
    /\ Keys(results_size) = <<blend_files[1]>>

\* C10: at the start of an iteration and at the reporting stage the keys of
\* results_size are among the keys of results_libs, which are the files inspected
\* so far; the keys of both are discovered files; inside an iteration the only
\* key results_size can have and results_libs lack is the current file, whose
\* size entry is there before the file is loaded.
C10_KeySubsets ==
    /\ KeySet(results_libs) \subseteq Range(blend_files)
    /\ KeySet(results_size) \subseteq Range(blend_files)
    /\ pc = "getsize" \/ Reporting =>
          /\ KeySet(results_size) \subseteq KeySet(results_libs)
          /\ Keys(results_libs) = SubSeq(blend_files, 1, idx - 1)
    /\ pc \in {"open", "libs"} =>
          /\ KeySet(results_size) \ KeySet(results_libs) \subseteq {blend_files[idx]}
          /\ Keys(results_libs) = SubSeq(blend_files, 1, idx - 1)
    /\ pc = "open" =>
          /\ <<"open", blend_files[idx]>> \notin Range(log)
          /\ disk[blend_files[idx]].size > 52428800 =>
                blend_files[idx] \in KeySet(results_size)

C10_Witness ==
    /\ pc = "open"
    /\ idx = 2
    /\ blend_files[2] \in KeySet(results_size)
    /\ blend_files[2] \notin KeySet(results_libs)
    /\ KeySet(results_size) = {blend_files[2]}

====
